---- MODULE Spec2Model ----
(***************************************************************************)
(* Model of src/reverse_engineering/api.js: the sampling callbacks'        *)
(* document pipeline (filterDocuments, generateCustomInferSchema,          *)
(* getDocumentKindDataFromInfer) and the document partitioning done by     *)
(* handleBucket and getDbCollectionsData, and the paged fetch of getData   *)
(* with its asyncLoop.                                                     *)
(*                                                                         *)
(* JavaScript strings are modelled as sequences of one-character strings   *)
(* so that prop[0], split(',') and the flavor regular expression can be    *)
(* computed.  JavaScript values are records [t, v, ref]: t is the kind of  *)
(* value, v its contents (a sequence of integers), ref the identity of the *)
(* object for arrays and objects (0 for primitives).                       *)
(***************************************************************************)
EXTENDS Integers, Sequences, FiniteSets, TLC

VARIABLES
    pc,               \* position in the pipeline
    collection,       \* the documents stored in the server-side collection
    documents,        \* the `documents` array delivered by getData
    params,           \* `params` handed to generateCustomInferSchema
    inferSchema,      \* result of generateCustomInferSchema
    data,             \* `data` handed to getDocumentKindDataFromInfer
    probability,      \* `probability` handed to getDocumentKindDataFromInfer
    documentKindData, \* result of getDocumentKindDataFromInfer
    documentKindName, \* documentKinds[name].documentKindName picked by the user
    dbCollections,    \* handleBucket's dataItem.dbCollections
    includeEmptyCollection, \* data.includeEmptyCollection
    collectionPackages, \* getDbCollectionsData's collectionPackages
    loop              \* getData and its asyncLoop: settings, counters, requests, done calls

vars == <<pc, collection, documents, params, inferSchema, data, probability,
          documentKindData, documentKindName, dbCollections,
          includeEmptyCollection, collectionPackages, loop>>

-----------------------------------------------------------------------------
(* Bounds and input domains *)

MaxDocs == 2

\* longest sample of the counting runs (documents differing only in having a field)
MaxCountedDocs == 8

S_id == <<"_", "i", "d">>
S_type == <<"t", "y", "p", "e">>
S_name == <<"n", "a", "m", "e">>
S_coll == <<"c", "o", "l", "l">>
S_star == <<"*">>

FieldNames == {S_type, S_name}

\* Values as they are stored on the server (no object identity yet).
Num(n) == [t |-> "number", v |-> <<n>>, ref |-> 0]
Arr(s) == [t |-> "array", v |-> s, ref |-> 0]
Obj(s) == [t |-> "object", v |-> s, ref |-> 0]
Null == [t |-> "null", v |-> <<>>, ref |-> 0]
Undefined == [t |-> "undefined", v |-> <<>>, ref |-> 0]

StoredValues == {Num(0), Num(1), Arr(<<1>>), Obj(<<1>>), Null}

\* the values a field takes in the stored documents
ValuesOf(field) ==
    IF field = S_type THEN StoredValues ELSE {Num(0), Num(1), Arr(<<1>>)}

\* A stored document: its _id first, then any of the fields, in any order.
OrderedFields == {<<>>, <<S_type>>, <<S_name>>, <<S_type, S_name>>, <<S_name, S_type>>}

StoredDocs ==
    UNION { { [i \in 1..(Len(fs) + 1) |->
                 IF i = 1 THEN [key |-> S_id, value |-> Obj(<<>>)]
                          ELSE [key |-> fs[i - 1], value |-> vals[i - 1]]] :
              vals \in { f \in [1..Len(fs) -> StoredValues] :
                            \A i \in 1..Len(fs) : f[i] \in ValuesOf(fs[i]) } } :
            fs \in OrderedFields }

StoredCollections == UNION { [1..n -> StoredDocs] : n \in 0..MaxDocs }

\* longer collections whose documents either have the field `type` or not
CountedDocs ==
    { <<[key |-> S_id, value |-> Obj(<<>>)]>>,
      <<[key |-> S_id, value |-> Obj(<<>>)], [key |-> S_type, value |-> Num(1)]>> }

CountedCollections == UNION { [1..n -> CountedDocs] : n \in 1..MaxCountedDocs }

-----------------------------------------------------------------------------
(* JavaScript value semantics used by the code *)

IsObject(x) == x.t \in {"array", "object"}

\* typeof x
TypeofJS(x) ==
    CASE x.t = "number" -> "number"
      [] x.t = "string" -> "string"
      [] x.t = "boolean" -> "boolean"
      [] x.t = "undefined" -> "undefined"
      [] OTHER -> "object"

\* x === y: identity for objects, value for primitives
StrictEquals(x, y) ==
    IF IsObject(x) \/ IsObject(y)
    THEN IsObject(x) /\ IsObject(y) /\ x.ref = y.ref
    ELSE x.t = y.t /\ x.v = y.v

\* structural equality (what _.isEqual would compute); not used by the code
DeepEquals(x, y) == x.t = y.t /\ x.v = y.v

\* Boolean(x)
Truthy(x) ==
    CASE x.t = "number" -> x.v # <<0>>
      [] x.t \in {"null", "undefined"} -> FALSE
      [] OTHER -> TRUE

\* Array.prototype.indexOf(x) !== -1
Includes(arr, x) == \E i \in 1..Len(arr) : StrictEquals(arr[i], x)

\* ToNumber(ToPrimitive(x)) for an array or object x: <<n>>, or <<>> for NaN.
\* [] -> "" -> 0, [n] -> "n" -> n, longer arrays and plain objects -> NaN.
ObjectToNumber(x) ==
    IF x.t = "array" /\ Len(x.v) = 0 THEN <<0>>
    ELSE IF x.t = "array" /\ Len(x.v) = 1 THEN <<x.v[1]>>
    ELSE <<>>

\* x == y (abstract equality)
LooseEquals(x, y) ==
    CASE x.t \in {"null", "undefined"} \/ y.t \in {"null", "undefined"} ->
            x.t \in {"null", "undefined"} /\ y.t \in {"null", "undefined"}
      [] IsObject(x) /\ IsObject(y) -> x.ref = y.ref
      [] IsObject(x) -> ObjectToNumber(x) = y.v
      [] IsObject(y) -> ObjectToNumber(y) = x.v
      [] OTHER -> x.v = y.v

\* _.uniq(arr): first occurrences under SameValueZero (=== here, no NaN)
RECURSIVE Uniq(_)
Uniq(arr) ==
    IF arr = <<>> THEN <<>>
    ELSE LET front == Uniq(SubSeq(arr, 1, Len(arr) - 1))
             last == arr[Len(arr)]
         IN IF Includes(front, last) THEN front ELSE Append(front, last)

\* item[prop] of a document
HasProp(item, prop) == \E i \in 1..Len(item.props) : item.props[i].key = prop
Get(item, prop) ==
    IF HasProp(item, prop)
    THEN item.props[CHOOSE i \in 1..Len(item.props) : item.props[i].key = prop].value
    ELSE Undefined

-----------------------------------------------------------------------------
(* collection.find().limit(limit).toArray(callback): every fetch            *)
(* deserializes the stored documents into fresh objects, so each document  *)
(* and each array or object value gets an identity of its own.             *)

ToArray(coll, fetch) ==
    [i \in 1..Len(coll) |->
        [ref |-> fetch * 100000 + i * 10,
         props |-> [j \in 1..Len(coll[i]) |->
                      [key |-> coll[i][j].key,
                       value |-> IF IsObject(coll[i][j].value)
                                 THEN [coll[i][j].value EXCEPT !.ref = fetch * 100000 + i * 10 + j]
                                 ELSE coll[i][j].value]]]]

-----------------------------------------------------------------------------
(* filterDocuments *)

IsReservedProp(p) == p.key # <<>> /\ p.key[1] = "_"
KeepProp(p) == ~IsReservedProp(p)

filterDocuments(docs) ==
    [i \in 1..Len(docs) |-> [docs[i] EXCEPT !.props = SelectSeq(@, KeepProp)]]

-----------------------------------------------------------------------------
(* generateCustomInferSchema *)

DefaultSampleSize == 30

\* {}.toString.call(obj).split(' ')[1].slice(0, -1).toLowerCase()
typeOf(obj) == obj.t

\* faulty variant: the percentage is truncated
RoundPercentDown(n, d) == (100 * n) \div d

\* Math.round(n / d * 100) for n >= 0, d > 0: nearest integer, halves up.
\* (The double-precision quotient gives the same result for every d below 40;
\* at 23 / 40 it evaluates to 57.49999999999999 and rounds to 57.)
RoundPercent(n, d) == (200 * n + d) \div (2 * d)

PropIndex(properties, prop) ==
    IF \E i \in 1..Len(properties) : properties[i].key = prop
    THEN CHOOSE i \in 1..Len(properties) : properties[i].key = prop
    ELSE 0

\* the body of `for (let prop in item)`
ScanProp(properties, p, sampleSize) ==
    LET i == PropIndex(properties, p.key) IN
    IF i # 0
    THEN [properties EXCEPT ![i] =
            [key |-> @.key,
             docs |-> @.docs + 1,
             pctDocs |-> @.pctDocs,
             samples |-> IF ~Includes(@.samples, p.value) /\ Len(@.samples) < sampleSize
                         THEN Append(@.samples, p.value)
                         ELSE @.samples,
             type |-> typeOf(p.value)]]
    ELSE Append(properties,
                [key |-> p.key, docs |-> 1, pctDocs |-> 100,
                 samples |-> <<p.value>>, type |-> typeOf(p.value)])

RECURSIVE ScanProps(_, _, _)
ScanProps(properties, props, sampleSize) ==
    IF props = <<>> THEN properties
    ELSE ScanProps(ScanProp(properties, Head(props), sampleSize), Tail(props), sampleSize)

\* documents.forEach(item => { ... })
RECURSIVE ScanDocuments(_, _, _)
ScanDocuments(schema, docs, sampleSize) ==
    IF docs = <<>> THEN schema
    ELSE ScanDocuments(
            [docs |-> schema.docs + 1,
             properties |-> ScanProps(schema.properties, Head(docs).props, sampleSize)],
            Tail(docs), sampleSize)

\* faulty variant: the placeholder "%docs" of 100 is never recomputed
RecomputePercentSkipped(schema) == schema

\* the final loop recomputing "%docs"
RecomputePercent(schema) ==
    [docs |-> schema.docs,
     properties |->
        [i \in 1..Len(schema.properties) |->
            [schema.properties[i] EXCEPT
                !.pctDocs = RoundPercent(schema.properties[i].docs, schema.docs)]]]

\* faulty variant: "#docs" starts at 1 instead of 0
generateCustomInferSchemaFromOne(bucketName, docs, ps) ==
    RecomputePercent(
        ScanDocuments([docs |-> 1, properties |-> <<>>], docs,
                      IF ps.sampleSize # 0 THEN ps.sampleSize ELSE DefaultSampleSize))

\* params.sampleSize || 30   (an absent sampleSize is modelled as 0)
EffectiveSampleSize(ps) == IF ps.sampleSize # 0 THEN ps.sampleSize ELSE DefaultSampleSize

generateCustomInferSchema(bucketName, docs, ps) ==
    RecomputePercent(
        ScanDocuments([docs |-> 0, properties |-> <<>>], docs, EffectiveSampleSize(ps)))

-----------------------------------------------------------------------------
(* getDocumentKindDataFromInfer *)

\* Object.keys(properties)
ObjectKeys(properties) == [i \in 1..Len(properties) |-> properties[i].key]

\* faulty variant: the exclusion list is ignored
NotInArrayAlways(arr, key) == TRUE

\* arr.indexOf(key) === -1 on an array of strings
NotInArray(arr, key) == \A i \in 1..Len(arr) : arr[i] # key

\* minCount is <<>> for Infinity and <<n>> for the number n
LessThanMinCount(n, minCount) == minCount = <<>> \/ n < minCount[1]

\* faulty variant: "%docs" must exceed the threshold
IsSuggestedStrict(p, prob) ==
    /\ p.pctDocs > prob
    /\ Len(p.samples) # 0
    /\ TypeofJS(p.samples[1]) # "object"

\* the test of line 377
IsSuggested(p, prob) ==
    /\ p.pctDocs >= prob
    /\ Len(p.samples) # 0
    /\ TypeofJS(p.samples[1]) # "object"

\* faulty variant: a candidate with as many samples as the best also replaces it
ReplacesBestOnTie(p, acc) ==
    /\ p.pctDocs >= acc.probability
    /\ (acc.minCount = <<>> \/ Len(p.samples) <= acc.minCount[1])

\* the test of line 381
ReplacesBest(p, acc) ==
    /\ p.pctDocs >= acc.probability
    /\ LessThanMinCount(Len(p.samples), acc.minCount)

\* faulty variant: a field that is no candidate is pushed to both lists
ScanKeyBothLists(acc, p, prob, excludeDocKind) ==
    IF IsSuggested(p, prob)
    THEN LET pushed == [acc EXCEPT !.suggestedDocKinds = Append(@, p.key)] IN
         IF NotInArray(excludeDocKind, p.key) /\ ReplacesBest(p, acc)
         THEN [pushed EXCEPT !.minCount = <<Len(p.samples)>>,
                             !.probability = p.pctDocs,
                             !.key = p.key]
         ELSE pushed
    ELSE [acc EXCEPT !.otherDocKinds = Append(@, p.key),
                     !.suggestedDocKinds = Append(@, p.key)]

\* the body of `for (let key in inference)`
ScanKey(acc, p, prob, excludeDocKind) ==
    IF IsSuggested(p, prob)
    THEN LET pushed == [acc EXCEPT !.suggestedDocKinds = Append(@, p.key)] IN
         IF NotInArray(excludeDocKind, p.key) /\ ReplacesBest(p, acc)
         THEN [pushed EXCEPT !.minCount = <<Len(p.samples)>>,
                             !.probability = p.pctDocs,
                             !.key = p.key]
         ELSE pushed
    ELSE [acc EXCEPT !.otherDocKinds = Append(@, p.key)]

RECURSIVE ScanKeys(_, _, _, _)
ScanKeys(acc, properties, prob, excludeDocKind) ==
    IF properties = <<>> THEN acc
    ELSE ScanKeys(ScanKey(acc, Head(properties), prob, excludeDocKind),
                  Tail(properties), prob, excludeDocKind)

\* str.split(sep) for a one-character separator
RECURSIVE Split(_, _)
Split(str, sep) ==
    IF \E i \in 1..Len(str) : str[i] = sep
    THEN LET i == CHOOSE k \in 1..Len(str) :
                     str[k] = sep /\ \A j \in 1..(k - 1) : str[j] # sep
         IN <<SubSeq(str, 1, i - 1)>> \o Split(SubSeq(str, i + 1, Len(str)), sep)
    ELSE <<str>>

\* positions at which " = " starts in str
AssignPositions(str) ==
    { i \in 1..(Len(str) - 2) : str[i] = " " /\ str[i + 1] = "=" /\ str[i + 2] = " " }

Min(S) == CHOOSE x \in S : \A y \in S : x <= y

\* faulty variant: the first group swallows the space before the equals sign
MatchFlavorWithSpace(str) ==
    IF AssignPositions(str) = {}
    THEN [isNull |-> TRUE, groups |-> <<>>]
    ELSE LET i == Min(AssignPositions(str))
         IN [isNull |-> FALSE,
             groups |-> <<str, SubSeq(str, 1, i), SubSeq(str, i + 3, Len(str))>>]

\* str.match(/([\s\S]*?) \= "?([\s\S]*?)"?$/): null, or [whole, group 1, group 2].
\* The lazy first group stops at the first " = "; an opening quote is taken
\* when present; the lazy second group leaves one closing quote out.
MatchFlavor(str) ==
    IF AssignPositions(str) = {}
    THEN [isNull |-> TRUE, groups |-> <<>>]
    ELSE LET i == Min(AssignPositions(str))
             rest == SubSeq(str, i + 3, Len(str))
             opened == IF rest # <<>> /\ rest[1] = "\"" THEN Tail(rest) ELSE rest
             value == IF opened # <<>> /\ opened[Len(opened)] = "\""
                      THEN SubSeq(opened, 1, Len(opened) - 1)
                      ELSE opened
         IN [isNull |-> FALSE, groups |-> <<str, SubSeq(str, 1, i - 1), value>>]

\* faulty variant: the property names are listed whatever the number of assignments
FlavorBranchKeepsKeys(d) ==
    LET flavor == IF d.flavorValue # <<>>
                  THEN Split(d.flavorValue, ",")
                  ELSE Split(d.inference[1].Flavor, ",")
        matched == MatchFlavor(flavor[1])
    IN IF Len(flavor) = 1
       THEN [threw |-> matched.isNull,
             suggestedDocKinds |-> ObjectKeys(d.inference[1].properties),
             key |-> IF ~matched.isNull /\ Len(matched.groups) # 0
                     THEN matched.groups[2] ELSE <<>>]
       ELSE [threw |-> FALSE,
             suggestedDocKinds |-> ObjectKeys(d.inference[1].properties),
             key |-> <<>>]

\* the else branch of lines 391-398; reading .length of a null match throws
FlavorBranch(d) ==
    LET flavor == IF d.flavorValue # <<>>
                  THEN Split(d.flavorValue, ",")
                  ELSE Split(d.inference[1].Flavor, ",")
        matched == MatchFlavor(flavor[1])
    IN IF Len(flavor) = 1
       THEN [threw |-> matched.isNull,
             suggestedDocKinds |-> ObjectKeys(d.inference[1].properties),
             key |-> IF ~matched.isNull /\ Len(matched.groups) # 0
                     THEN matched.groups[2] ELSE <<>>]
       ELSE [threw |-> FALSE, suggestedDocKinds |-> <<>>, key |-> <<>>]

getDocumentKindDataFromInfer(d, prob) ==
    IF d.isCustomInfer
    THEN LET acc == ScanKeys([suggestedDocKinds |-> <<>>, otherDocKinds |-> <<>>,
                              key |-> <<>>, probability |-> 0, minCount |-> <<>>],
                             d.inference.properties, prob, d.excludeDocKind)
         IN [threw |-> FALSE,
             bucketName |-> d.bucketName,
             documentList |-> acc.suggestedDocKinds,
             documentKind |-> acc.key,
             otherDocKinds |-> acc.otherDocKinds]
    ELSE LET r == FlavorBranch(d)
         IN [threw |-> r.threw,
             bucketName |-> d.bucketName,
             documentList |-> r.suggestedDocKinds,
             documentKind |-> r.key,
             otherDocKinds |-> <<>>]

-----------------------------------------------------------------------------
(* handleBucket and getDbCollectionsData *)

\* documentKindName || '*'
KindOrStar(name) == IF name # <<>> THEN name ELSE S_star

\* lines 332-344, with prepareConnectionDataItem
handleBucketItem(docs, kindName) ==
    LET documentKind == KindOrStar(kindName)
        mapped == [i \in 1..Len(docs) |-> Get(docs[i], documentKind)]
        documentTypes == IF documentKind # S_star
                         THEN Uniq(SelectSeq(mapped, Truthy))
                         ELSE <<>>
    IN [dbName |-> S_coll,
        dbCollections |-> Uniq(documentTypes),
        isEmpty |-> Len(docs) = 0]

\* lines 250-273: the package of one document kind
KindPackage(docs, documentKind, docKindItem) ==
    LET IsOfKind(item) == LooseEquals(Get(item, documentKind), docKindItem)
    IN [dbName |-> S_coll, emptyBucket |-> FALSE, keyedBy |-> "docKindItem",
        collectionName |-> docKindItem,
        documents |-> SelectSeq(docs, IsOfKind)]

\* lines 229-296; docKindsList is [defined, items]
collectionPackagesOf(docs, kindName, docKindsList, includeEmpty) ==
    LET documentKind == KindOrStar(kindName)
        Pushed(pkg) == Len(pkg.documents) > 0 \/ includeEmpty
    IN IF documentKind # S_star
       THEN IF ~docKindsList.defined
            THEN IF includeEmpty
                 THEN <<[dbName |-> S_coll, emptyBucket |-> TRUE, keyedBy |-> "none",
                         collectionName |-> Undefined, documents |-> <<>>]>>
                 ELSE <<>>
            ELSE SelectSeq([i \in 1..Len(docKindsList.items) |->
                               KindPackage(docs, documentKind, docKindsList.items[i])],
                           Pushed)
       ELSE SelectSeq(<<[dbName |-> S_coll, emptyBucket |-> FALSE, keyedBy |-> "bucketName",
                         collectionName |-> Undefined, documents |-> docs]>>,
                      Pushed)

-----------------------------------------------------------------------------
(* Inputs of the operations *)

\* params.sampleSize: absent (0), or a number; getDocumentKinds passes 20
SampleSizes == {0, 1, 20}

\* probability: getDocumentKinds passes 90
Thresholds == {50, 90}

\* connectionInfo.excludeDocKind
Exclusions == {<<>>, <<S_type>>, <<S_type, S_name>>}

\* documentKinds[collectionName].documentKindName; <<>> is "none chosen"
KindNames == {<<>>, S_type, S_name}

Assignment(k, v, quoted) ==
    k \o <<" ", "=", " ">> \o (IF quoted THEN <<"\"">> ELSE <<>>) \o v
      \o (IF quoted THEN <<"\"">> ELSE <<>>)

FlavorKeys == {S_type, S_name}
FlavorValues == {<<"u">>}
SingleFlavors == { Assignment(k, v, q) : k \in FlavorKeys, v \in FlavorValues, q \in BOOLEAN }
MultiFlavors == { a \o <<",">> \o b : a \in SingleFlavors, b \in SingleFlavors }
\* a string holding no assignment, and an assignment whose value holds a comma
OddFlavors == { <<"x">>, Assignment(S_type, <<"a", ",", "b">>, TRUE) }
Flavors == SingleFlavors \cup MultiFlavors \cup OddFlavors

\* property names of the externally supplied inference description
ExternalProperties ==
    { <<>>, <<[key |-> S_type]>>, <<[key |-> S_name], [key |-> S_type]>> }

-----------------------------------------------------------------------------
(* State machine *)

NoSchema == [docs |-> 0, properties |-> <<>>]
NoData == [isCustomInfer |-> FALSE, bucketName |-> <<>>, inference |-> <<>>,
           excludeDocKind |-> <<>>, flavorValue |-> <<>>]
NoResult == [threw |-> FALSE, bucketName |-> <<>>, documentList |-> <<>>,
             documentKind |-> <<>>, otherDocKinds |-> <<>>]

NoLoop == [settings |-> [active |-> "absolute", absolute |-> [value |-> 0],
                         relative |-> [value |-> 0]],
           countErr |-> FALSE, size |-> 0, iterations |-> 0, i |-> 0, result |-> <<>>,
           requests |-> <<>>, pending |-> FALSE, doneCalls |-> <<>>]

InitRest ==
    /\ params = [sampleSize |-> 0]
    /\ inferSchema = NoSchema
    /\ data = NoData
    /\ probability = 0
    /\ documentKindData = NoResult
    /\ documentKindName = <<>>
    /\ dbCollections = <<>>
    /\ includeEmptyCollection = FALSE
    /\ collectionPackages = <<>>
    /\ loop = NoLoop

\* getData has delivered the sample of a collection to the callback
InitSampled ==
    /\ pc = "fetched"
    /\ collection \in StoredCollections
    /\ documents = ToArray(collection, 1)
    /\ InitRest

\* an inference description comes from outside; no collection is sampled
InitExternal ==
    /\ pc = "external"
    /\ collection = <<>>
    /\ documents = <<>>
    /\ InitRest

Init == InitSampled \/ InitExternal

\* documents = filterDocuments(documents)   (lines 103, 229, 332)
FilterDocuments ==
    /\ pc = "fetched"
    /\ documents' = filterDocuments(documents)
    /\ pc' = "filtered"
    /\ UNCHANGED <<collection, params, inferSchema, data, probability,
                   documentKindData, documentKindName, dbCollections,
                   includeEmptyCollection, collectionPackages, loop>>

\* inferSchema = generateCustomInferSchema(name, documents, params)   (line 104)
GenerateCustomInferSchema ==
    /\ pc = "filtered"
    /\ \E ss \in SampleSizes :
          /\ params' = [sampleSize |-> ss]
          /\ inferSchema' = generateCustomInferSchema(S_coll, documents, [sampleSize |-> ss])
    /\ pc' = "inferred"
    /\ UNCHANGED <<collection, documents, data, probability,
                   documentKindData, documentKindName, dbCollections,
                   includeEmptyCollection, collectionPackages, loop>>

\* getDocumentKindDataFromInfer({..., isCustomInfer: true, ...}, probability)   (line 105)
GetDocumentKindDataFromInfer ==
    /\ pc = "inferred"
    /\ \E prob \in Thresholds, ex \in Exclusions :
          LET d == [isCustomInfer |-> TRUE, bucketName |-> S_coll,
                    inference |-> inferSchema, excludeDocKind |-> ex,
                    flavorValue |-> <<>>]
          IN /\ data' = d
             /\ probability' = prob
             /\ documentKindData' = getDocumentKindDataFromInfer(d, prob)
    /\ pc' = "detected"
    /\ UNCHANGED <<collection, documents, params, inferSchema,
                   documentKindName, dbCollections,
                   includeEmptyCollection, collectionPackages, loop>>

\* getDocumentKindDataFromInfer on an external description (isCustomInfer falsy)
GetDocumentKindDataFromFlavor ==
    /\ pc = "external"
    /\ \E fv \in Flavors \cup {<<>>}, fl \in Flavors, props \in ExternalProperties,
          prob \in Thresholds :
          LET d == [isCustomInfer |-> FALSE, bucketName |-> S_coll,
                    inference |-> <<[Flavor |-> fl, properties |-> props]>>,
                    excludeDocKind |-> <<>>, flavorValue |-> fv]
          IN /\ data' = d
             /\ probability' = prob
             /\ documentKindData' = getDocumentKindDataFromInfer(d, prob)
    /\ pc' = "detected"
    /\ UNCHANGED <<collection, documents, params, inferSchema,
                   documentKindName, dbCollections,
                   includeEmptyCollection, collectionPackages, loop>>

\* the getData callback of handleBucket, after filterDocuments   (lines 333-345)
HandleBucket ==
    /\ pc = "filtered"
    /\ \E kind \in KindNames :
          /\ documentKindName' = kind
          /\ dbCollections' = handleBucketItem(documents, kind).dbCollections
    /\ pc' = "bucketHandled"
    /\ UNCHANGED <<collection, documents, params, inferSchema, data, probability,
                   documentKindData, includeEmptyCollection, collectionPackages, loop>>

\* the getData callback of getDbCollectionsData (lines 229-296): the sample is
\* fetched again and filtered; the kinds list is the one handleBucket reported
\* (an empty one may reach the callback as an empty array or not at all)
GetDbCollectionsData ==
    /\ pc = "bucketHandled"
    /\ \E inc \in BOOLEAN,
          defined \in {TRUE} \cup (IF dbCollections = <<>> THEN {FALSE} ELSE {}) :
          LET docs == filterDocuments(ToArray(collection, 2))
          IN /\ includeEmptyCollection' = inc
             /\ documents' = docs
             /\ collectionPackages' =
                   collectionPackagesOf(docs, documentKindName,
                                        [defined |-> defined, items |-> dbCollections], inc)
    /\ pc' = "partitioned"
    /\ UNCHANGED <<collection, params, inferSchema, data, probability,
                   documentKindData, documentKindName, dbCollections, loop>>

Next ==
    \/ FilterDocuments
    \/ GenerateCustomInferSchema
    \/ GetDocumentKindDataFromInfer
    \/ GetDocumentKindDataFromFlavor

\* getDocumentKinds: sample, filter, infer, detect
Spec == Init /\ [][Next]_vars

NextPartition ==
    \/ FilterDocuments
    \/ HandleBucket
    \/ GetDbCollectionsData

\* getDbCollectionsNames followed by getDbCollectionsData
SpecPartition == InitSampled /\ [][NextPartition]_vars

\* a longer sample of documents that differ only in having a field
InitCounted ==
    /\ pc = "fetched"
    /\ collection \in CountedCollections
    /\ documents = ToArray(collection, 1)
    /\ InitRest

NextInfer ==
    \/ FilterDocuments
    \/ GenerateCustomInferSchema

\* filterDocuments and generateCustomInferSchema on both kinds of sample
SpecInfer == (InitSampled \/ InitCounted) /\ [][NextInfer]_vars

-----------------------------------------------------------------------------
(* getData and asyncLoop *)

\* most pages a run of the paging model asks for
MaxPages == 3

\* the count used when collection.count fails or reports nothing   (line 486)
DefaultAmount == 1000
\* the size used when getSampleDocSize gives 0   (line 487)
DefaultSize == 1000
\* the largest limit of one find()   (lines 488, 491)
PageSize == 1000

\* numbers of stored documents, and absolute sampling values
Sizes ==
    UNION { {k * PageSize, k * PageSize + 1, k * PageSize + 999} : k \in 0..(MaxPages - 1) }
        \cup {MaxPages * PageSize}
\* relative sampling values
Percents == {0, 1, 50, 100}

SampleSettings ==
    { [active |-> "absolute", absolute |-> [value |-> n], relative |-> [value |-> 50]] :
         n \in Sizes }
    \cup
    { [active |-> "relative", absolute |-> [value |-> 1000], relative |-> [value |-> p]] :
         p \in Percents }

\* collections of documents that hold an _id only
PagedCollections ==
    { [i \in 1..n |-> <<[key |-> S_id, value |-> Obj(<<>>)]>>] : n \in Sizes }

\* Math.round(num / den) for num >= 0, den > 0, as a set of results: the
\* nearest integer; when num / den lies exactly halfway the double-precision
\* value may lie just below the half, and then the result is the lower one
\* (1 / 100 * 50 is 0.5 and gives 1, 1999 / 100 * 50 is 999.4999999999999
\* and gives 999).
MathRound(num, den) ==
    LET q == num \div den
        r == 2 * (num % den)
    IN IF r < den THEN {q}
       ELSE IF r > den THEN {q + 1}
       ELSE {q, q + 1}

\* getSampleDocSize(count, recordSamplingSettings), as the set of its results
getSampleDocSize(count, settings) ==
    IF settings.active = "absolute"
    THEN {settings.absolute.value}
    ELSE MathRound(count * settings.relative.value, 100)

\* !err && count > 0 ? count : 1000
AmountOf(err, count) == IF ~err /\ count > 0 THEN count ELSE DefaultAmount

\* +size || 1000
SizeOrDefault(size) == IF size # 0 THEN size ELSE DefaultSize

\* size > 1000 ? Math.ceil(size / 1000) : 1
IterationsOf(size) ==
    IF size > PageSize THEN (size + PageSize - 1) \div PageSize ELSE 1

\* faulty variant: the last page is a full one too
LimitOfAlwaysFull(i, iterations, size) == PageSize

\* i < iterations - 1 || size % 1000 === 0 ? 1000 : size % 1000
LimitOf(i, iterations, size) ==
    IF i < iterations - 1 \/ size % PageSize = 0 THEN PageSize ELSE size % PageSize

\* collection.find().limit(limit).toArray(): the first `limit` stored
\* documents (all of them for a limit of 0), deserialized by this fetch
FindLimitToArray(coll, limit, fetch) ==
    ToArray(IF limit > 0 /\ limit < Len(coll) THEN SubSeq(coll, 1, limit) ELSE coll, fetch)

\* asyncLoop's `callback(i, handler)`: the page request of getData (lines 490-494)
RequestPage(l, i) ==
    [l EXCEPT !.requests = Append(@, [i |-> i, limit |-> LimitOf(i, l.iterations, l.size)]),
              !.pending = TRUE]

\* done(err) and done(err, result)
Done(l, err, hasResult, result) ==
    [l EXCEPT !.doneCalls = Append(@, [err |-> err, hasResult |-> hasResult,
                                       result |-> result]),
              !.pending = FALSE]

\* faulty variant: the new page is put in front of the pages read so far
HandlerDataPrepends(l, pageData) ==
    LET result == pageData \o l.result
        i == l.i + 1
        next == [l EXCEPT !.result = result, !.i = i, !.pending = FALSE]
    IN IF i < l.iterations
       THEN RequestPage(next, i)
       ELSE Done(next, FALSE, TRUE, result)

\* handler(err, data) with err falsy   (lines 505-511)
HandlerData(l, pageData) ==
    LET result == l.result \o pageData
        i == l.i + 1
        next == [l EXCEPT !.result = result, !.i = i, !.pending = FALSE]
    IN IF i < l.iterations
       THEN RequestPage(next, i)
       ELSE Done(next, FALSE, TRUE, result)

\* handler(err, data) with err truthy   (lines 502-503)
HandlerError(l) == Done(l, TRUE, FALSE, <<>>)

\* asyncLoop(iterations, callback, done) up to its first page request   (lines 498-520).
\* The page request of getData reports its errors through handler, so the
\* catch branch of line 517 is not taken.
asyncLoop(l) == RequestPage([l EXCEPT !.result = <<>>, !.i = 0], 0)

\* getData has been called; collection.count is under way
InitGetData ==
    /\ pc = "counting"
    /\ collection \in PagedCollections
    /\ documents = <<>>
    /\ InitRest

\* the callback of collection.count   (lines 485-494)
CountCallback ==
    /\ pc = "counting"
    /\ \E err \in BOOLEAN, settings \in SampleSettings :
          \E sampleDocSize \in getSampleDocSize(AmountOf(err, Len(collection)), settings) :
             LET size == SizeOrDefault(sampleDocSize)
             IN loop' = asyncLoop([loop EXCEPT !.settings = settings,
                                               !.countErr = err,
                                               !.size = size,
                                               !.iterations = IterationsOf(size)])
    /\ pc' = "paging"
    /\ UNCHANGED <<collection, documents, params, inferSchema, data, probability,
                   documentKindData, documentKindName, dbCollections,
                   includeEmptyCollection, collectionPackages>>

\* toArray calls handler with the page
PageArrives ==
    /\ pc = "paging"
    /\ loop.pending
    /\ LET request == loop.requests[Len(loop.requests)]
           pageData == FindLimitToArray(collection, request.limit, Len(loop.requests))
           l == HandlerData(loop, pageData)
       IN /\ loop' = l
          /\ IF l.doneCalls # <<>>
             THEN pc' = "delivered" /\ documents' = l.doneCalls[1].result
             ELSE pc' = "paging" /\ UNCHANGED documents
    /\ UNCHANGED <<collection, params, inferSchema, data, probability,
                   documentKindData, documentKindName, dbCollections,
                   includeEmptyCollection, collectionPackages>>

\* toArray calls handler with an error
PageFails ==
    /\ pc = "paging"
    /\ loop.pending
    /\ loop' = HandlerError(loop)
    /\ pc' = "failed"
    /\ UNCHANGED <<collection, documents, params, inferSchema, data, probability,
                   documentKindData, documentKindName, dbCollections,
                   includeEmptyCollection, collectionPackages>>

NextGetData ==
    \/ CountCallback
    \/ PageArrives
    \/ PageFails

\* getData: count, then the pages one after the other
SpecGetData == InitGetData /\ [][NextGetData]_vars

-----------------------------------------------------------------------------
(* Properties *)

Range(seq) == { seq[i] : i \in 1..Len(seq) }

DetectedCustom == pc = "detected" /\ data.isCustomInfer
DetectedFlavor == pc = "detected" /\ ~data.isCustomInfer

C2_SamplesDistinctDeep ==
    pc = "inferred" =>
        \A i \in 1..Len(inferSchema.properties) :
            LET samples == inferSchema.properties[i].samples
            IN /\ Len(samples) <= EffectiveSampleSize(params)
               /\ \A a, b \in 1..Len(samples) :
                     a # b => ~DeepEquals(samples[a], samples[b])

\* the flavor string the alternate mode reads, and the properties it lists
FlavorSource == IF data.flavorValue # <<>> THEN data.flavorValue ELSE data.inference[1].Flavor
Commas(str) == { i \in 1..Len(str) : str[i] = "," }
SuppliedProperties ==
    IF data.isCustomInfer THEN data.inference.properties ELSE data.inference[1].properties
SuppliedKeys == { SuppliedProperties[i].key : i \in 1..Len(SuppliedProperties) }

ListsPartitionKeys ==
    /\ Range(documentKindData.documentList) \cap Range(documentKindData.otherDocKinds) = {}
    /\ Range(documentKindData.documentList) \cup Range(documentKindData.otherDocKinds)
          = SuppliedKeys
    /\ Len(documentKindData.documentList) + Len(documentKindData.otherDocKinds)
          = Len(SuppliedProperties)

Eligible(p) ==
    /\ p.pctDocs >= probability
    /\ Len(p.samples) >= 1
    /\ p.samples[1].t \notin {"null", "array", "object"}
Survivors ==
    { i \in 1..Len(SuppliedProperties) :
        /\ Eligible(SuppliedProperties[i])
        /\ SuppliedProperties[i].key \notin Range(data.excludeDocKind) }
ChosenIndex ==
    CHOOSE i \in 1..Len(SuppliedProperties) :
        SuppliedProperties[i].key = documentKindData.documentKind

\* C4 as stated: the chosen field is the candidate outside the exclusion set
\* with the lowest number of sampled values, whatever the scan order and the
\* candidates' "%docs".
C4_LowestCardinality ==
    (DetectedCustom /\ Survivors # {}) =>
        /\ ChosenIndex \in Survivors
        /\ \A j \in Survivors :
              Len(SuppliedProperties[ChosenIndex].samples) <= Len(SuppliedProperties[j].samples)

\* C4 amended: the chosen field is a candidate outside the exclusion set that
\* no candidate scanned after it beats (at least its "%docs" and strictly
\* fewer samples); when all those candidates have the same "%docs" it is the
\* first scanned one among those with the lowest number of samples.
C4_GreedyChoice ==
    (DetectedCustom /\ Survivors # {}) =>
        LET c == ChosenIndex
            P(i) == SuppliedProperties[i]
        IN /\ c \in Survivors
           /\ \A j \in Survivors :
                 j > c => ~(P(j).pctDocs >= P(c).pctDocs /\ Len(P(j).samples) < Len(P(c).samples))
           /\ (\A i, j \in Survivors : P(i).pctDocs = P(j).pctDocs) =>
                 \A j \in Survivors :
                    /\ Len(P(c).samples) <= Len(P(j).samples)
                    /\ Len(P(c).samples) = Len(P(j).samples) => c <= j

\* two candidates at 100 %docs, threshold 90, none excluded: the one scanned
\* second has fewer samples and is chosen
C4_Witness ==
    /\ DetectedCustom
    /\ probability = 90
    /\ data.excludeDocKind = <<>>
    /\ Len(SuppliedProperties) = 2
    /\ Survivors = {1, 2}
    /\ Len(SuppliedProperties[1].samples) = 2
    /\ Len(SuppliedProperties[2].samples) = 1
    /\ documentKindData.documentKind = SuppliedProperties[2].key

\* C5 as stated: a field is in documentList exactly when its "%docs" reaches
\* the threshold, it has a sample and typeOf of its first sample is not
\* "object"; every other field is in otherDocKinds only.
C5_EligibleByTypeTag ==
    DetectedCustom =>
        \A i \in 1..Len(SuppliedProperties) :
            LET p == SuppliedProperties[i]
                ok == /\ p.pctDocs >= probability
                      /\ Len(p.samples) >= 1
                      /\ typeOf(p.samples[1]) # "object"
            IN /\ p.key \in Range(documentKindData.documentList) <=> ok
               /\ p.key \in Range(documentKindData.otherDocKinds) <=> ~ok

\* C5 amended: ... and its first sample is not null, an array or an object
\* (JavaScript typeof is not "object").
C5_Eligibility ==
    DetectedCustom =>
        \A i \in 1..Len(SuppliedProperties) :
            LET p == SuppliedProperties[i]
            IN /\ p.key \in Range(documentKindData.documentList) <=> Eligible(p)
               /\ p.key \in Range(documentKindData.otherDocKinds) <=> ~Eligible(p)

\* threshold 90: a field at 50 %docs is in otherDocKinds, one at 100 is a candidate
C5_Witness ==
    /\ DetectedCustom
    /\ probability = 90
    /\ \E i, j \in 1..Len(SuppliedProperties) :
          /\ SuppliedProperties[i].pctDocs = 50
          /\ SuppliedProperties[i].samples[1].t = "number"
          /\ SuppliedProperties[i].key \in Range(documentKindData.otherDocKinds)
          /\ SuppliedProperties[j].pctDocs = 100
          /\ SuppliedProperties[j].key \in Range(documentKindData.documentList)

\* C6: the chosen field is empty or a candidate outside the exclusion set; it
\* is empty exactly when no candidate is outside the exclusion set; excluded
\* fields that are eligible are still listed as candidates.
C6_ChosenField ==
    DetectedCustom =>
        /\ \/ documentKindData.documentKind = <<>>
           \/ /\ documentKindData.documentKind \in Range(documentKindData.documentList)
              /\ documentKindData.documentKind \notin Range(data.excludeDocKind)
        /\ documentKindData.documentKind = <<>> <=> Survivors = {}
        /\ \A i \in 1..Len(SuppliedProperties) :
              (Eligible(SuppliedProperties[i])
                 /\ SuppliedProperties[i].key \in Range(data.excludeDocKind))
              => SuppliedProperties[i].key \in Range(documentKindData.documentList)

\* two candidates, the first excluded: the second is chosen, both are listed
C6_Witness ==
    /\ DetectedCustom
    /\ data.excludeDocKind = <<S_type>>
    /\ Range(documentKindData.documentList) = {S_type, S_name}
    /\ documentKindData.documentKind = S_name

\* C7: an empty sample gives "#docs" 0 and no properties, and the detector in
\* custom-infer mode then returns two empty lists and an empty chosen field.
C7_EmptySample ==
    /\ (pc \in {"inferred", "detected"} /\ collection = <<>>) =>
          inferSchema = [docs |-> 0, properties |-> <<>>]
    /\ (DetectedCustom /\ collection = <<>>) =>
          /\ ~documentKindData.threw
          /\ documentKindData.documentList = <<>>
          /\ documentKindData.otherDocKinds = <<>>
          /\ documentKindData.documentKind = <<>>

C7_Witness == DetectedCustom /\ collection = <<>> /\ data.inference.docs = 0

HoldersOf(d) ==
    { k \in 1..Len(collectionPackages) :
        \E m \in 1..Len(collectionPackages[k].documents) :
            collectionPackages[k].documents[m].ref = d.ref }

\* C10: every sampled document is in exactly one package: the package of its
\* own value of the chosen field when it has that field, the package named
\* after the collection when it lacks the field or no field is chosen.
C10_ExactlyOneGroup ==
    pc = "partitioned" =>
        \A i \in 1..Len(documents) :
            LET d == documents[i]
                kind == KindOrStar(documentKindName)
            IN /\ Cardinality(HoldersOf(d)) = 1
               /\ \A k \in HoldersOf(d) :
                     IF kind # S_star /\ HasProp(d, kind)
                     THEN /\ collectionPackages[k].keyedBy = "docKindItem"
                          /\ DeepEquals(collectionPackages[k].collectionName, Get(d, kind))
                     ELSE collectionPackages[k].keyedBy = "bucketName"

-----------------------------------------------------------------------------
(* Properties of getData and asyncLoop *)

Counted == pc \in {"paging", "delivered", "failed"}

RECURSIVE SumLimits(_)
SumLimits(requests) ==
    IF requests = <<>> THEN 0
    ELSE requests[1].limit + SumLimits(Tail(requests))

\* the count getData works with, and the caps the policy allows for it
UsedCount ==
    IF ~loop.countErr /\ Len(collection) > 0 THEN Len(collection) ELSE 1000
PolicyCaps ==
    IF loop.settings.active = "absolute"
    THEN {loop.settings.absolute.value}
    ELSE LET x == UsedCount * loop.settings.relative.value
         IN { r \in (x \div 100)..(x \div 100 + 1) :
                100 * r - x <= 50 /\ x - 100 * r <= 50 }

\* C11: the cap is the absolute value, or the rounded count / 100 * P of a
\* relative policy (1000 stands in for a count that is unavailable or 0, and
\* for a cap of 0); ceil(cap / 1000) pages, at least one, are requested, each
\* with a limit from 1 to 1000, the limits add up to the cap, and the sample
\* delivered is no longer than the cap.
C11_CapAndPages ==
    Counted =>
        /\ \E raw \in PolicyCaps : loop.size = (IF raw = 0 THEN 1000 ELSE raw)
        /\ loop.iterations >= 1
        /\ 1000 * loop.iterations >= loop.size
        /\ 1000 * (loop.iterations - 1) < loop.size
        /\ Len(loop.requests) <= loop.iterations
        /\ \A k \in 1..Len(loop.requests) :
              loop.requests[k].limit >= 1 /\ loop.requests[k].limit <= 1000
        /\ SumLimits(loop.requests) <= loop.size
        /\ pc = "delivered" =>
              /\ Len(loop.requests) = loop.iterations
              /\ SumLimits(loop.requests) = loop.size
              /\ Len(documents) <= loop.size

\* 100 % of 2001 documents: pages of 1000, 1000 and 1
C11_Witness ==
    /\ pc = "delivered"
    /\ loop.settings.active = "relative"
    /\ loop.size = 2001
    /\ [k \in 1..Len(loop.requests) |-> loop.requests[k].limit] = <<1000, 1000, 1>>
    /\ Len(documents) = 2001

\* the pages of the first n requests, one after the other
RECURSIVE PagesUpTo(_)
PagesUpTo(n) ==
    IF n = 0 THEN <<>>
    ELSE PagesUpTo(n - 1) \o FindLimitToArray(collection, loop.requests[n].limit, n)

\* C12: pages are requested one at a time in the order 0, 1, ..., each after
\* the one before it succeeded; done is called once: after the first error,
\* with the error and no result and with no page requested after it, or
\* after the last page, with all pages concatenated in request order.
C12_AsyncLoop ==
    Counted =>
        /\ \A k \in 1..Len(loop.requests) : loop.requests[k].i = k - 1
        /\ Len(loop.requests) <= loop.iterations
        /\ Len(loop.requests) = (IF pc = "delivered" THEN loop.i ELSE loop.i + 1)
        /\ loop.result = PagesUpTo(loop.i)
        /\ Len(loop.doneCalls) <= 1
        /\ pc = "paging" => loop.pending /\ loop.doneCalls = <<>>
        /\ pc = "failed" =>
              /\ ~loop.pending
              /\ Len(loop.doneCalls) = 1
              /\ loop.doneCalls[1].err
              /\ ~loop.doneCalls[1].hasResult
        /\ pc = "delivered" =>
              /\ ~loop.pending
              /\ Len(loop.doneCalls) = 1
              /\ ~loop.doneCalls[1].err
              /\ loop.doneCalls[1].hasResult
              /\ Len(loop.requests) = loop.iterations
              /\ loop.doneCalls[1].result = PagesUpTo(loop.iterations)

\* the second of three pages fails: the first page is not handed to done
C12_Witness ==
    /\ pc = "failed"
    /\ loop.iterations = 3
    /\ Len(loop.requests) = 2
    /\ loop.result # <<>>
    /\ loop.doneCalls = <<[err |-> TRUE, hasResult |-> FALSE, result |-> <<>>]>>

====
